---------------------------- MODULE Spec2Model ----------------------------
(***************************************************************************)
(* Model of src/proxy.js: the proxyReq handler of the sales-order          *)
(* extraction proxy (onProxyReq) and the stream events of the FormData     *)
(* body it pipes into the outbound request.                                *)
(*                                                                         *)
(* One request is followed from the moment http-proxy-middleware emits     *)
(* 'proxyReq' (multer has already parsed the inbound body into req.body    *)
(* and req.files, and the outbound request carries the inbound headers).   *)
(* JavaScript runs a handler to completion, so onProxyReq is one action;   *)
(* what the FormData stream emits after the handler has returned is one    *)
(* action per event.  The stream is a library object: how many of its      *)
(* events it emits inside pipe() and how many later, whether it errors,    *)
(* and whether getLengthSync throws, are choices of the environment.       *)
(***************************************************************************)
EXTENDS Integers, Sequences, FiniteSets, TLC

VARIABLES
    req,        \* the inbound request as multer left it: method, header, body, files
    proxyReq,   \* the outbound request: headers, bytes written, calls made on it
    form,       \* the FormData built by the handler: parts, listeners, stream state
    route,      \* which branch of onProxyReq ran: "pending", "multipart", "passthrough"
    pc,         \* "start" before onProxyReq runs, "returned" after it
    errLog,     \* what was logged as an error, in order
    res,        \* the client-facing response: the calls made on it, client gone or not
    upstream,   \* the upstream response stream and the outbound connection
    other       \* the state of a second request handled concurrently, if any

vars == <<req, proxyReq, form, route, pc, errLog, res, upstream, other>>

---------------------------------------------------------------------------
(* Bounds of the model *)

MaxPairs == 2       \* key/value pairs in one JSON object text
MaxFields == 2      \* text fields in req.body
MaxFiles == 2       \* files in req.files
MaxRelayed == 1     \* chunks of the upstream response relayed to the client

---------------------------------------------------------------------------
(* Configuration *)

doxSchemaName == "SO_Auto_Extraction_Schema"

---------------------------------------------------------------------------
(* Strings *)

\* String.prototype.includes: sub occurs in s at some offset, compared
\* character by character (case-sensitive).
Includes(s, sub) ==
    \E i \in 1..(Len(s) - Len(sub) + 1) : SubSeq(s, i, i + Len(sub) - 1) = sub


---------------------------------------------------------------------------
(* JSON texts and values                                                   *)
(*                                                                         *)
(* A text is what a field of req.body holds.  kind "bad" is a text that is *)
(* not JSON; "null", "prim" (a number, string or boolean) and "arr" are    *)
(* JSON texts that are not objects; "obj" is an object text, its members   *)
(* in textual order, where a key may occur more than once.  A parsed       *)
(* object is a sequence of <<key, value>> with each key once, in property  *)
(* order.                                                                  *)

Keys == {"schemaName", "extraction", "user"}
Vals == {"foo", "bob"}

Text(kind, pairs) == [kind |-> kind, pairs |-> pairs]

HasKey(obj, k) == \E i \in DOMAIN obj : obj[i][1] = k

GetKey(obj, k) == obj[CHOOSE i \in DOMAIN obj : obj[i][1] = k][2]

\* obj[k] = v: an existing property keeps its place, a new one goes last.
SetKey(obj, k, v) ==
    IF HasKey(obj, k)
    THEN [i \in DOMAIN obj |-> IF obj[i][1] = k THEN <<k, v>> ELSE obj[i]]
    ELSE Append(obj, <<k, v>>)

\* delete obj[k]: no error when the property is absent.
DeleteKey(obj, k) ==
    LET keep(p) == p[1] # k IN SelectSeq(obj, keep)

RECURSIVE ParseMembers(_, _)
\* The members of an object text applied left to right: a repeated key
\* overwrites the earlier value.
ParseMembers(pairs, obj) ==
    IF pairs = <<>> THEN obj
    ELSE ParseMembers(Tail(pairs), SetKey(obj, Head(pairs)[1], Head(pairs)[2]))

\* JSON.parse throws a SyntaxError on a text that is not JSON.
ParseThrows(text) == text.kind = "bad"

\* JSON.parse(text), for a text it accepts.
JSONparse(text) ==
    IF text.kind = "obj"
    THEN [kind |-> "obj", pairs |-> ParseMembers(text.pairs, <<>>)]
    ELSE [kind |-> text.kind, pairs |-> <<>>]

\* JSON.stringify(value): an object's own properties in property order; a
\* property added to an array or a primitive is not serialized.
JSONstringify(value) == Text(value.kind, value.pairs)

\* jsonOptions.schemaName = ... throws a TypeError when jsonOptions is null.
AssignThrows(value) == value.kind = "null"

\* Lines 40-46 for one field: does the loop body throw?
FieldThrows(text) == ParseThrows(text) \/ AssignThrows(JSONparse(text))

RewriteField_KeepsSchema(text) ==
    LET jsonOptions == JSONparse(text) IN
    IF jsonOptions.kind = "obj"
    THEN JSONstringify([kind |-> "obj",
            pairs |-> DeleteKey(
                IF HasKey(jsonOptions.pairs, "schemaName") THEN jsonOptions.pairs
                ELSE SetKey(jsonOptions.pairs, "schemaName", doxSchemaName),
                "extraction")])
    ELSE JSONstringify(jsonOptions)

RewriteField_DeletesWhenTagged(text) ==
    LET jsonOptions == JSONparse(text) IN
    IF jsonOptions.kind = "obj"
    THEN JSONstringify([kind |-> "obj",
            pairs |-> SetKey(IF HasKey(jsonOptions.pairs, "schemaName")
                             THEN DeleteKey(jsonOptions.pairs, "extraction")
                             ELSE jsonOptions.pairs,
                             "schemaName", doxSchemaName)])
    ELSE JSONstringify(jsonOptions)

\* Lines 40-46 for one field that does not throw: the text appended to the
\* form.  On an object the schema name is set and extraction deleted; on an
\* array or a primitive both statements leave the serialized value as it was.
RewriteField(text) ==
    LET jsonOptions == JSONparse(text) IN
    IF jsonOptions.kind = "obj"
    THEN JSONstringify([kind |-> "obj",
            pairs |-> DeleteKey(SetKey(jsonOptions.pairs, "schemaName", doxSchemaName),
                                "extraction")])
    ELSE JSONstringify(jsonOptions)

RECURSIVE SeqsUpTo(_, _)
\* All sequences over S of length at most n.
SeqsUpTo(S, n) ==
    IF n = 0 THEN {<<>>}
    ELSE LET shorter == SeqsUpTo(S, n - 1) IN
         shorter \cup {Append(q, x) : q \in shorter, x \in S}

ObjectTexts == {Text("obj", ps) : ps \in SeqsUpTo(Keys \X Vals, MaxPairs)}

OtherTexts == {Text("bad", <<>>), Text("null", <<>>), Text("prim", <<>>), Text("arr", <<>>)}

---------------------------------------------------------------------------
(* The inbound request                                                     *)

multipartFormData == "multipart/form-data"

HdrMultipart == "multipart/form-data; boundary=X"
HdrMixedCase == "Multipart/Form-Data; boundary=X"
HdrJson      == "application/json"

\* The Content-Type header of the inbound request: absent, or a value.
Headers ==
    {[present |-> FALSE, value |-> ""]}
        \cup {[present |-> TRUE, value |-> v] : v \in {HdrMultipart, HdrMixedCase, HdrJson}}

Methods == {"POST", "PUT"}

LowerChar(c) ==
    CASE c = "M" -> "m" [] c = "F" -> "f" [] c = "D" -> "d" [] OTHER -> c

RECURSIVE Lower(_)
Lower(s) ==
    IF Len(s) = 0 THEN "" ELSE LowerChar(SubSeq(s, 1, 1)) \o Lower(SubSeq(s, 2, Len(s)))

\* upload.any() parses a body only when the media type is multipart, which
\* it decides without regard to letter case; otherwise it leaves req.body
\* without text fields and req.files unset.
MulterParses(header) ==
    header.present /\ Includes(Lower(header.value), multipartFormData)

FieldNames == {"options", "meta", "extra"}

\* Texts for the fields of requests that also vary in method, header and files.
SampleTexts ==
    { Text("bad", <<>>),
      Text("null", <<>>),
      Text("obj", << <<"extraction", "foo">>, <<"user", "bob">> >>),
      Text("obj", << <<"schemaName", "foo">> >>) }

Field(name, text) == [name |-> name, text |-> text]

\* req.body: the text fields in key order, each name once.
Bodies(texts) ==
    { b \in SeqsUpTo({Field(n, t) : n \in FieldNames, t \in texts}, MaxFields) :
        \A i, j \in DOMAIN b : i # j => b[i].name # b[j].name }

\* One entry of req.files, as multer's memory storage leaves it.
Files ==
    { [fieldname |-> "file", originalname |-> "invoice.pdf",
       mimetype |-> "application/pdf", buffer |-> "%PDF-1.4"],
      [fieldname |-> "attachment", originalname |-> "scan.png",
       mimetype |-> "image/png", buffer |-> ""] }

\* req.files: an array (upload.any() parsed the body) or not set.
FileLists ==
    {[isArray |-> FALSE, list |-> <<>>]}
        \cup {[isArray |-> TRUE, list |-> l] : l \in SeqsUpTo(Files, MaxFiles)}

Request(m, h, b, f) == [method |-> m, header |-> h, body |-> b, files |-> f]

\* Requests that vary in method, header, fields and files.
MixedRequests ==
    { Request(m, h, b, f) : m \in Methods, h \in Headers,
                            b \in Bodies(SampleTexts), f \in FileLists } 

\* POST multipart requests with one field, over every text within the bounds.
FieldRequests ==
    { Request("POST", [present |-> TRUE, value |-> HdrMultipart],
              <<Field("options", t)>>, [isArray |-> TRUE, list |-> <<>>]) :
        t \in ObjectTexts \cup OtherTexts }

\* What multer can have left behind for the request's header.
WellFormed(r) ==
    IF MulterParses(r.header) THEN r.files.isArray
    ELSE r.body = <<>> /\ ~r.files.isArray

Requests == {r \in MixedRequests \cup FieldRequests : WellFormed(r)}

---------------------------------------------------------------------------
(* The multipart encoder (form-data), as the handler uses it               *)

NoText == Text("none", <<>>)

\* form.append(key, string): a part with no filename and no content type.
FieldPart(key, value) ==
    [kind |-> "field", name |-> key, text |-> value, buffer |-> "",
     filename |-> "", contentType |-> ""]

FilePart_FieldAsName(file) ==
    [kind |-> "file", name |-> file.fieldname, text |-> NoText, buffer |-> file.buffer,
     filename |-> file.fieldname, contentType |-> file.mimetype]

\* form.append(file.fieldname, file.buffer, {filename, contentType}).
FilePart(file) ==
    [kind |-> "file", name |-> file.fieldname, text |-> NoText, buffer |-> file.buffer,
     filename |-> file.originalname, contentType |-> file.mimetype]

\* The closing boundary, emitted after the last part of a form that has parts.
Closing ==
    [kind |-> "close", name |-> "", text |-> NoText, buffer |-> "",
     filename |-> "", contentType |-> ""]

\* The boundary form-data generates for a new FormData.
formBoundary == "--------------------------048576000000000000000001"

CRLF == "\r\n"

RECURSIVE RenderMembers(_)
RenderMembers(pairs) ==
    IF pairs = <<>> THEN ""
    ELSE "\"" \o Head(pairs)[1] \o "\":\"" \o Head(pairs)[2] \o "\""
            \o (IF Len(pairs) > 1 THEN "," ELSE "") \o RenderMembers(Tail(pairs))

\* The characters of a text.
RenderText(text) ==
    CASE text.kind = "obj"  -> "{" \o RenderMembers(text.pairs) \o "}"
      [] text.kind = "arr"  -> "[]"
      [] text.kind = "prim" -> "1"
      [] text.kind = "null" -> "null"
      [] text.kind = "bad"  -> "{oops"
      [] OTHER -> ""

\* The bytes of one chunk of the encoded body under a boundary.
ChunkBytes(boundary, c) ==
    IF c.kind = "close" THEN "--" \o boundary \o "--" \o CRLF
    ELSE "--" \o boundary \o CRLF
            \o "Content-Disposition: form-data; name=\"" \o c.name \o "\""
            \o (IF c.kind = "file"
                THEN "; filename=\"" \o c.filename \o "\"" \o CRLF
                        \o "Content-Type: " \o c.contentType
                ELSE "")
            \o CRLF \o CRLF
            \o (IF c.kind = "file" THEN c.buffer ELSE RenderText(c.text))
            \o CRLF

RECURSIVE BytesOf(_, _)
\* The byte length of a sequence of chunks.
BytesOf(boundary, chunks) ==
    IF chunks = <<>> THEN 0
    ELSE Len(ChunkBytes(boundary, Head(chunks))) + BytesOf(boundary, Tail(chunks))

\* What the form stream emits as data, in order: the parts, then the closing
\* boundary; a form without parts emits no data.
Chunks(parts) == IF parts = <<>> THEN <<>> ELSE Append(parts, Closing)

\* form.getLengthSync(), when it does not throw: the parts' overhead and
\* values, plus the closing boundary when there is a part.
getLengthSync(parts) ==
    BytesOf(formBoundary, parts)
        + (IF parts = <<>> THEN 0 ELSE Len(ChunkBytes(formBoundary, Closing)))

\* form.getHeaders(): the content type naming the form's boundary.
getHeaders == "multipart/form-data; boundary=" \o formBoundary

\* The Content-Length the client sent for the body multer parsed, which the
\* outbound request inherits with the other inbound headers.
InboundLength(r) ==
    BytesOf("X", Append([i \in DOMAIN r.body |-> FieldPart(r.body[i].name, r.body[i].text)]
                            \o [i \in DOMAIN r.files.list |-> FilePart(r.files.list[i])],
                        Closing))

---------------------------------------------------------------------------
(* The outbound request and the handler                                    *)

\* proxyReq.setHeader(name, value), recorded in the order of the calls.  A
\* header name is matched without regard to case, so the encoder's
\* 'content-type' replaces the inherited Content-Type.
SetContentType(pr, value) ==
    [pr EXCEPT !.contentType = [present |-> TRUE, value |-> value],
               !.ops = Append(@, "setHeader:content-type")]

SetContentLength(pr, length) ==
    [pr EXCEPT !.contentLength = <<length>>,
               !.ops = Append(@, "setHeader:Content-Length")]

\* One 'data' event of the piped form: pipe's listener writes the chunk.
Write(pr, chunk) ==
    [pr EXCEPT !.written = Append(@, chunk), !.ops = Append(@, "write")]

RECURSIVE WriteAll(_, _)
WriteAll(pr, chunks) ==
    IF chunks = <<>> THEN pr ELSE WriteAll(Write(pr, Head(chunks)), Tail(chunks))

Call(pr, op) == [pr EXCEPT !.ops = Append(@, op)]

\* Line 32: req.get('Content-Type') || ''.
ContentTypeOf(r) == IF r.header.present THEN r.header.value ELSE ""

TakesMultipartPath_AnyCase(r) ==
    r.method = "POST" /\ Includes(Lower(ContentTypeOf(r)), multipartFormData)

TakesMultipartPath_Exact(r) ==
    r.method = "POST" /\ ContentTypeOf(r) = multipartFormData

\* Line 33: the condition of the multipart branch.
TakesMultipartPath(r) ==
    r.method = "POST" /\ Includes(ContentTypeOf(r), multipartFormData)

\* Lines 38-48: the first field whose loop body throws, or 0.
FirstThrowing(body) ==
    IF \E i \in DOMAIN body : FieldThrows(body[i].text)
    THEN CHOOSE i \in DOMAIN body :
            /\ FieldThrows(body[i].text)
            /\ \A j \in 1..(i - 1) : ~FieldThrows(body[j].text)
    ELSE 0

\* Lines 38-48: the parts appended for the first n fields.
FieldParts(body, n) ==
    [i \in 1..n |-> FieldPart(body[i].name, RewriteField(body[i].text))]

\* Lines 50-55: the parts appended for the files.
FileParts(files) ==
    IF files.isArray THEN [i \in DOMAIN files.list |-> FilePart(files.list[i])]
    ELSE <<>>

\* Lines 64-71: the Content-Length step.  A length of 0 is not set.
WithLength(pr, parts, lengthThrows) ==
    IF ~lengthThrows /\ getLengthSync(parts) # 0
    THEN SetContentLength(pr, getLengthSync(parts))
    ELSE pr

NewForm == [parts |-> <<>>, listeners |-> {}, emitted |-> 0, status |-> "unpiped"]

\* The client-facing response before anything is done to it.
NewRes == [ops |-> <<>>, closed |-> FALSE]

\* No upstream response yet, and the outbound connection in order.
NewUpstream == [status |-> "none", relayed |-> 0, failed |-> FALSE]

NoOther == [present |-> FALSE]

\* The outbound request as http-proxy hands it to onProxyReq: it carries the
\* inbound Content-Type and, when the client sent one, Content-Length.
InheritedLengths(r) == {<<>>, <<InboundLength(r)>>}

NewProxyReq(r, cl) ==
    [contentType |-> r.header, contentLength |-> cl, written |-> <<>>, ops |-> <<>>]

\* The state in which onProxyReq is called for a request drawn from R.
InitWith(R) ==
    /\ req \in R
    /\ \E cl \in InheritedLengths(req) : proxyReq = NewProxyReq(req, cl)
    /\ form = NewForm
    /\ route = "pending"
    /\ pc = "start"
    /\ errLog = <<>>
    /\ res = NewRes
    /\ upstream = NewUpstream

Init ==
    /\ InitWith(Requests)
    /\ other = NoOther

TransformFails_Responds ==
    /\ FirstThrowing(req.body) # 0
    /\ form' = [NewForm EXCEPT !.parts = FieldParts(req.body, FirstThrowing(req.body) - 1)]
    /\ errLog' = Append(errLog, "logger.error:onProxyReq")
    /\ res' = [res EXCEPT !.ops = <<"writeHead", "end">>]
    /\ UNCHANGED proxyReq

\* Lines 36-48 when a field's loop body throws: the exception leaves the try
\* block before any header is set or the form is piped; line 89 logs it.
TransformFails ==
    /\ FirstThrowing(req.body) # 0
    /\ form' = [NewForm EXCEPT !.parts = FieldParts(req.body, FirstThrowing(req.body) - 1)]
    /\ errLog' = Append(errLog, "logger.error:onProxyReq")
    /\ UNCHANGED <<proxyReq, res>>

\* Lines 36-55 when no field throws: the parts of the form in the order of
\* the append calls, the fields in key order and then the files.
FormParts(r) ==
    FieldParts(r.body, Len(r.body)) \o FileParts(r.files)

HeadersThenPipe_LengthLate(pr, parts, lengthThrows, n) ==
    WithLength(WriteAll(SetContentType(pr, getHeaders), SubSeq(Chunks(parts), 1, n)),
               parts, lengthThrows)

\* Lines 57-75: the encoder's headers are set, then the Content-Length step
\* runs, then form.pipe(proxyReq) writes the n chunks emitted inside pipe().
HeadersThenPipe(pr, parts, lengthThrows, n) ==
    WriteAll(WithLength(SetContentType(pr, getHeaders), parts, lengthThrows),
             SubSeq(Chunks(parts), 1, n))

\* Lines 36-82 when no field throws.  n chunks are emitted inside
\* form.pipe(proxyReq), followed there by 'end', by 'error', or by nothing.
\* Inside pipe() only pipe's own listeners exist: 'end' ends proxyReq; an
\* 'error' has no listener and is thrown out of pipe() to line 88, so lines
\* 76-82 do not run.
TransformAndPipe ==
    /\ FirstThrowing(req.body) = 0
    /\ UNCHANGED res
    /\ LET parts == FormParts(req)
           chunks == Chunks(parts)
       IN \E lengthThrows \in BOOLEAN, n \in 0..Len(chunks), ev \in {"none", "end", "error"} :
            /\ ev = "end" => n = Len(chunks)
            /\ LET piped == HeadersThenPipe(proxyReq, parts, lengthThrows, n)
               IN CASE ev = "none" ->
                        /\ proxyReq' = piped
                        /\ form' = [parts |-> parts, listeners |-> {"error", "end"},
                                    emitted |-> n, status |-> "flowing"]
                        /\ UNCHANGED errLog
                    [] ev = "end" ->
                        /\ proxyReq' = Call(piped, "end")
                        /\ form' = [parts |-> parts, listeners |-> {"error", "end"},
                                    emitted |-> n, status |-> "ended"]
                        /\ UNCHANGED errLog
                    [] ev = "error" ->
                        /\ proxyReq' = piped
                        /\ form' = [parts |-> parts, listeners |-> {},
                                    emitted |-> n, status |-> "errored"]
                        /\ errLog' = Append(errLog, "logger.error:onProxyReq")

\* Lines 83-87: the helper is called with the outbound and inbound request.
Passthrough ==
    /\ proxyReq' = Call(proxyReq, "fixRequestBody")
    /\ UNCHANGED <<form, errLog, res>>

\* onProxyReq(proxyReq, req, res), lines 30-91.
OnProxyReq ==
    /\ pc = "start"
    /\ pc' = "returned"
    /\ IF TakesMultipartPath(req)
       THEN route' = "multipart" /\ (TransformFails \/ TransformAndPipe)
       ELSE route' = "passthrough" /\ Passthrough
    /\ UNCHANGED <<req, upstream, other>>

\* A 'data' event after the handler has returned: pipe writes the chunk.
FormData ==
    /\ pc = "returned" /\ form.status = "flowing"
    /\ form.emitted < Len(Chunks(form.parts))
    /\ proxyReq' = Write(proxyReq, Chunks(form.parts)[form.emitted + 1])
    /\ form' = [form EXCEPT !.emitted = @ + 1]
    /\ UNCHANGED <<req, route, pc, errLog, res, upstream, other>>

\* The 'end' event after the handler has returned: pipe's listener ends
\* proxyReq, then the listener of lines 80-82 runs.
FormEnd ==
    /\ pc = "returned" /\ form.status = "flowing"
    /\ form.emitted = Len(Chunks(form.parts))
    /\ proxyReq' = IF "end" \in form.listeners
                   THEN Call(Call(proxyReq, "end"), "end")
                   ELSE Call(proxyReq, "end")
    /\ form' = [form EXCEPT !.status = "ended"]
    /\ UNCHANGED <<req, route, pc, errLog, res, upstream, other>>

\* An 'error' event after the handler has returned: the listener of lines
\* 76-79 logs it and destroys proxyReq.
FormError ==
    /\ pc = "returned" /\ form.status = "flowing"
    /\ "error" \in form.listeners
    /\ proxyReq' = Call(proxyReq, "destroy")
    /\ errLog' = Append(errLog, "console.error:form")
    /\ form' = [form EXCEPT !.status = "errored"]
    /\ UNCHANGED <<req, route, pc, res, upstream, other>>

Next == OnProxyReq \/ FormData \/ FormEnd \/ FormError

Spec == Init /\ [][Next]_vars

---------------------------------------------------------------------------
(* The response leg and the two connections                                *)

\* Lines 108-111: the events createProxyMiddleware is given a handler for.
\* proxyRes: onProxyRes is commented out, and selfHandleResponse (line 106)
\* with it, so the library relays the upstream response itself.
RegisteredHandlers == {"proxyReq"}

\* Requests for the runs that follow a request through its response.
RelayRequests ==
    { r \in { Request(m, h, b, f) :
                m \in Methods, h \in Headers,
                b \in {<<>>} \cup {<<Field("options", t)>> : t \in SampleTexts},
                f \in { [isArray |-> FALSE, list |-> <<>>],
                        [isArray |-> TRUE, list |-> <<>>] }
                        \cup {[isArray |-> TRUE, list |-> <<x>>] : x \in Files} } :
        WellFormed(r) }

\* The outbound request's head has gone out: something was written to it,
\* it was ended, or the passthrough helper wrote the buffered body.
HeadersSent(pr) ==
    \E i \in DOMAIN pr.ops : pr.ops[i] \in {"write", "end", "fixRequestBody"}

\* The upstream answers.  Nothing in proxy.js makes it wait for the end of
\* the outbound body.  The response is piped to res; the 'error' listener of
\* lines 97-100 exists only if onProxyRes is registered.
UpstreamResponds ==
    /\ pc = "returned" /\ upstream.status = "none" /\ ~upstream.failed
    /\ HeadersSent(proxyReq)
    /\ \A i \in DOMAIN proxyReq.ops : proxyReq.ops[i] # "destroy"
    /\ upstream' = [upstream EXCEPT !.status = "flowing"]
    /\ UNCHANGED <<req, proxyReq, form, route, pc, errLog, res, other>>

\* Line 96 (or the library's own pipe): a chunk of the response reaches res.
RelayData ==
    /\ upstream.status = "flowing" /\ upstream.relayed < MaxRelayed
    /\ res' = [res EXCEPT !.ops = Append(@, "pipe:write")]
    /\ upstream' = [upstream EXCEPT !.relayed = @ + 1]
    /\ UNCHANGED <<req, proxyReq, form, route, pc, errLog, other>>

\* The response ends: pipe ends res.
RelayEnd ==
    /\ upstream.status = "flowing"
    /\ res' = [res EXCEPT !.ops = Append(@, "pipe:end")]
    /\ upstream' = [upstream EXCEPT !.status = "ended"]
    /\ UNCHANGED <<req, proxyReq, form, route, pc, errLog, other>>

\* The response stream errors.  Lines 97-100 destroy res, when registered.
ProxyResError ==
    /\ upstream.status = "flowing"
    /\ upstream' = [upstream EXCEPT !.status = "errored"]
    /\ IF "proxyRes" \in RegisteredHandlers
       THEN /\ res' = [res EXCEPT !.ops = Append(@, "destroy")]
            /\ errLog' = Append(errLog, "console.error:proxyRes")
       ELSE UNCHANGED <<res, errLog>>
    /\ UNCHANGED <<req, proxyReq, form, route, pc, other>>

\* The client goes away while the request is in flight.  proxy.js registers
\* no listener on req or res for it.
ClientDisconnects ==
    /\ pc = "returned" /\ ~res.closed
    /\ upstream.status \in {"none", "flowing"}
    /\ res' = [res EXCEPT !.closed = TRUE]
    /\ UNCHANGED <<req, proxyReq, form, route, pc, errLog, upstream, other>>

\* The outbound connection errors before a response has come.  proxy.js
\* registers no 'error' listener on proxyReq and no error handler in lines
\* 108-111.
ProxyReqError ==
    /\ pc = "returned" /\ ~upstream.failed
    /\ upstream.status = "none"
    /\ upstream' = [upstream EXCEPT !.failed = TRUE]
    /\ UNCHANGED <<req, proxyReq, form, route, pc, errLog, res, other>>

InitRelay ==
    /\ InitWith(RelayRequests)
    /\ other = NoOther

NextRelay ==
    \/ Next
    \/ UpstreamResponds \/ RelayData \/ RelayEnd \/ ProxyResError
    \/ ClientDisconnects \/ ProxyReqError

\* One request followed through both legs.
SpecRelay == InitRelay /\ [][NextRelay]_vars

---------------------------------------------------------------------------
(* Two requests in flight                                                  *)

\* Everything onProxyReq and the listeners it registers hold for one
\* request: the arguments and the locals of one call (form, line 36).
Snapshot(rq, pr, fm, rt, p, lg, rs, up) ==
    [req |-> rq, proxyReq |-> pr, form |-> fm, route |-> rt, pc |-> p,
     errLog |-> lg, res |-> rs, upstream |-> up]

Current == Snapshot(req, proxyReq, form, route, pc, errLog, res, upstream)

ConcRequests ==
    {r \in RelayRequests : r.method = "POST" /\ r.header.value = HdrMultipart}

Switch_SharedForm ==
    /\ other.present
    /\ other' = [present |-> TRUE, st |-> Current]
    /\ req' = other.st.req
    /\ proxyReq' = other.st.proxyReq
    /\ form' = form
    /\ route' = other.st.route
    /\ pc' = other.st.pc
    /\ errLog' = other.st.errLog
    /\ res' = other.st.res
    /\ upstream' = other.st.upstream

\* The event loop turns to the other request: the next event belongs to it.
\* Each call of onProxyReq has its own proxyReq, req, res and form.
Switch ==
    /\ other.present
    /\ other' = [present |-> TRUE, st |-> Current]
    /\ req' = other.st.req
    /\ proxyReq' = other.st.proxyReq
    /\ form' = other.st.form
    /\ route' = other.st.route
    /\ pc' = other.st.pc
    /\ errLog' = other.st.errLog
    /\ res' = other.st.res
    /\ upstream' = other.st.upstream

InitConc ==
    /\ InitWith(ConcRequests)
    /\ \E r \in ConcRequests : \E cl \in InheritedLengths(r) :
          other = [present |-> TRUE,
                   st |-> Snapshot(r, NewProxyReq(r, cl), NewForm, "pending", "start",
                                   <<>>, NewRes, NewUpstream)]

NextConc == Next \/ Switch

\* Two requests whose events interleave.
SpecConc == InitConc /\ [][NextConc]_vars

---------------------------------------------------------------------------
(* Observations used by the properties *)

Count(ops, op) == Cardinality({i \in DOMAIN ops : ops[i] = op})

EndCalls == Count(proxyReq.ops, "end")

DestroyCalls == Count(proxyReq.ops, "destroy")

\* No event of this request is still to come.
Quiescent ==
    /\ pc = "returned"
    /\ form.status # "flowing"

TypeOK ==
    /\ req \in Requests
    /\ route \in {"pending", "multipart", "passthrough"}
    /\ pc \in {"start", "returned"}
    /\ form.status \in {"unpiped", "flowing", "ended", "errored"}
    /\ form.emitted = Len(proxyReq.written)

---------------------------------------------------------------------------
(* Properties *)

KeysOf(obj) == {obj[i][1] : i \in DOMAIN obj}

\* The part at position i is the rewrite of field i of req.body.
RewrittenAsClaimed(part, field) ==
    LET input == JSONparse(field.text)
        output == JSONparse(part.text)
        others(obj) == KeysOf(obj) \ {"schemaName", "extraction"}
    IN /\ part.kind = "field" /\ part.name = field.name
       /\ ~ParseThrows(part.text)
       /\ output.kind = "obj"
       /\ HasKey(output.pairs, "schemaName")
       /\ GetKey(output.pairs, "schemaName") = doxSchemaName
       /\ ~HasKey(output.pairs, "extraction")
       /\ others(output.pairs) = others(input.pairs)
       /\ \A k \in others(input.pairs) : GetKey(output.pairs, k) = GetKey(input.pairs, k)

IsObjectText(text) == ~ParseThrows(text) /\ JSONparse(text).kind = "obj"

\* C1: every field of a multipart request whose text parses to a JSON object
\* is appended to the form, and written to the outbound request, as a JSON
\* object with schemaName = doxSchemaName, without extraction, and with
\* every other key and value of the input, whether or not the input had
\* schemaName or extraction.
C1_FieldRewritten ==
    \A i \in DOMAIN req.body :
        IsObjectText(req.body[i].text) =>
            /\ i <= Len(form.parts) => RewrittenAsClaimed(form.parts[i], req.body[i])
            /\ i <= Len(proxyReq.written) => RewrittenAsClaimed(proxyReq.written[i], req.body[i])

C1_Witness ==
    \E i \in DOMAIN req.body :
        /\ i <= Len(proxyReq.written)
        /\ IsObjectText(req.body[i].text)
        /\ KeysOf(JSONparse(req.body[i].text).pairs) = {"schemaName", "extraction"}
        /\ GetKey(JSONparse(req.body[i].text).pairs, "schemaName") # doxSchemaName

\* C2: when a field of a multipart request is not valid JSON, nothing is
\* written to the outbound request and the outbound request is aborted.
C2_MalformedFieldAborts ==
    (pc = "returned" /\ route = "multipart"
        /\ \E i \in DOMAIN req.body : ParseThrows(req.body[i].text))
    => (proxyReq.written = <<>> /\ EndCalls = 0 /\ DestroyCalls >= 1)

\* The part of C2 the handler does keep: a request with a field that throws
\* writes nothing and sets no header on the outbound request.
NothingSentOnTransformFailure ==
    (pc = "returned" /\ route = "multipart" /\ FirstThrowing(req.body) # 0)
    => (proxyReq.written = <<>> /\ proxyReq.ops = <<>>)

\* C3: once a multipart request has no event left to come, the outbound
\* request has been ended or destroyed, and not both.
C3_ExactlyOneTerminalAction ==
    (route = "multipart" /\ Quiescent) => ((EndCalls >= 1) # (DestroyCalls >= 1))

PresentHeader(v) == [present |-> TRUE, value |-> v]

C6_OnlyExactSubstringTransformed ==
    pc = "returned" =>
        /\ route = "multipart" => req.header = PresentHeader(HdrMultipart)
        /\ req.header # PresentHeader(HdrMultipart) =>
              /\ route = "passthrough"
              /\ proxyReq.ops = <<"fixRequestBody">>
              /\ proxyReq.contentType = req.header
              /\ proxyReq.written = <<>>
              /\ form = NewForm

C6_Witness ==
    /\ pc = "returned" /\ req.method = "POST"
    /\ req.header = PresentHeader(HdrMixedCase)
    /\ req.body # <<>> /\ req.files.list # <<>>
    /\ route = "passthrough"

\* C7: when the whole body of a multipart request has been transmitted, a
\* Content-Length carried by the outbound request equals the number of bytes
\* written to it.
C7_ContentLengthIsBodyLength ==
    (route = "multipart" /\ form.status = "ended" /\ proxyReq.contentLength # <<>>)
    => proxyReq.contentLength[1] = BytesOf(formBoundary, proxyReq.written)

\* The part of C7 the handler does keep: a Content-Length set by the handler
\* is the byte length of the body once it has been transmitted.
ComputedLengthIsBodyLength ==
    (form.status = "ended" /\ Count(proxyReq.ops, "setHeader:Content-Length") = 1)
    => proxyReq.contentLength = <<BytesOf(formBoundary, proxyReq.written)>>

\* C8: when the length step sets no Content-Length (getLengthSync threw or
\* gave no usable length), the form is still piped and the outbound request
\* carries no Content-Length header.
C8_NoLengthMeansChunked ==
    (route = "multipart"
        /\ Count(proxyReq.ops, "setHeader:content-type") = 1
        /\ Count(proxyReq.ops, "setHeader:Content-Length") = 0)
    => (form.status # "unpiped" /\ proxyReq.contentLength = <<>>)

FilePartsOf(chunks) ==
    LET isFile(c) == c.kind = "file" IN SelectSeq(chunks, isFile)

SameFiles(chunks, files) ==
    /\ Len(FilePartsOf(chunks)) = Len(files)
    /\ \A i \in DOMAIN files :
          /\ FilePartsOf(chunks)[i].name = files[i].fieldname
          /\ FilePartsOf(chunks)[i].buffer = files[i].buffer
          /\ FilePartsOf(chunks)[i].filename = files[i].originalname
          /\ FilePartsOf(chunks)[i].contentType = files[i].mimetype

\* C9: the body rebuilt for a multipart request, and the body written to the
\* outbound request once the form has ended, hold for every file of
\* req.files one file part with the file's field name, bytes, filename and
\* MIME type.
C9_FilesPreserved ==
    /\ (route = "multipart" /\ form.status # "unpiped") => SameFiles(form.parts, req.files.list)
    /\ (route = "multipart" /\ form.status = "ended") => SameFiles(proxyReq.written, req.files.list)

C9_Witness ==
    /\ route = "multipart" /\ form.status = "ended"
    /\ Len(req.files.list) = 2 /\ req.files.list[1] # req.files.list[2]
    /\ req.body # <<>>

\* C10: when the form stream has reported an error after pipe() was called,
\* the outbound request has been destroyed and has not been ended.
C10_StreamErrorDestroys ==
    form.status = "errored" => (DestroyCalls = 1 /\ EndCalls = 0)

CalledOn(ops, allowed) == \A i \in DOMAIN ops : ops[i] \in allowed

\* C11: when the upstream response stream has errored while being relayed,
\* res has been destroyed and has not been ended gracefully.
C11_ResponseErrorDestroysClient ==
    upstream.status = "errored"
    => (Count(res.ops, "destroy") >= 1 /\ Count(res.ops, "pipe:end") = 0)

\* C12: on the outbound request every setHeader call comes before the first
\* write or end, and a multipart request that reaches the pipe has had the
\* encoder's Content-Type set.
C12_HeadersBeforeBody ==
    /\ \A i, j \in DOMAIN proxyReq.ops :
          (proxyReq.ops[i] \in {"setHeader:content-type", "setHeader:Content-Length"}
              /\ proxyReq.ops[j] \in {"write", "end"}) => i < j
    /\ (route = "multipart" /\ proxyReq.written # <<>>) =>
          /\ proxyReq.ops[1] = "setHeader:content-type"
          /\ proxyReq.contentType = PresentHeader(getHeaders)

C12_Witness ==
    /\ Count(proxyReq.ops, "setHeader:content-type") = 1
    /\ Count(proxyReq.ops, "setHeader:Content-Length") = 1
    /\ Count(proxyReq.ops, "write") >= 2
    /\ EndCalls >= 1

\* C13: when a field's loop body throws, or the form errors inside pipe(),
\* onProxyReq has returned normally, the exception has been logged once by
\* line 89, and nothing but the relay's pipe has touched res.
C13_TransformErrorCaughtAndSilent ==
    (route = "multipart"
        /\ (FirstThrowing(req.body) # 0
              \/ (form.status = "errored" /\ form.listeners = {})))
    => /\ pc = "returned"
       /\ Count(errLog, "logger.error:onProxyReq") = 1
       /\ CalledOn(res.ops, {"pipe:write", "pipe:end"})

C13_Witness ==
    /\ route = "multipart" /\ pc = "returned"
    /\ FirstThrowing(req.body) # 0
    /\ ParseThrows(req.body[FirstThrowing(req.body)].text)
    /\ res.closed

\* C14: once the client has gone away the outbound request has been
\* destroyed, and once the outbound connection has errored res has been
\* destroyed.
C14_DisconnectsPropagate ==
    /\ res.closed => DestroyCalls >= 1
    /\ upstream.failed => Count(res.ops, "destroy") >= 1

OwnChunk(st, c, i) ==
    LET nf == Len(st.req.body)
        nl == Len(st.req.files.list)
    IN CASE c.kind = "field" ->
                /\ i <= nf
                /\ c.name = st.req.body[i].name
                /\ c.text = RewriteField(st.req.body[i].text)
         [] c.kind = "file" ->
                /\ i > nf /\ i <= nf + nl
                /\ c.name = st.req.files.list[i - nf].fieldname
                /\ c.buffer = st.req.files.list[i - nf].buffer
                /\ c.filename = st.req.files.list[i - nf].originalname
                /\ c.contentType = st.req.files.list[i - nf].mimetype
         [] OTHER -> i = nf + nl + 1

OwnOutbound(st) ==
    /\ \A i \in DOMAIN st.proxyReq.written : OwnChunk(st, st.proxyReq.written[i], i)
    /\ \A i \in DOMAIN st.form.parts : OwnChunk(st, st.form.parts[i], i)
    /\ st.proxyReq.contentLength \in
          InheritedLengths(st.req)
              \cup {<<BytesOf(formBoundary, Chunks(st.form.parts))>>}
    /\ st.proxyReq.contentType \in {st.req.header, PresentHeader(getHeaders)}

\* C16: with two requests interleaved, each one's form, written body and
\* headers come from its own fields and files, and every rewritten field of
\* either carries the one configured schema name.
C16_RequestsIsolated ==
    /\ OwnOutbound(Current)
    /\ other.present => OwnOutbound(other.st)

C16_Witness ==
    /\ other.present
    /\ req # other.st.req
    /\ form.status = "flowing" /\ other.st.form.status = "flowing"
    /\ Len(proxyReq.written) = 1 /\ Len(other.st.proxyReq.written) = 1
    /\ proxyReq.written # other.st.proxyReq.written

Shape(chunks) == [i \in DOMAIN chunks |-> <<chunks[i].kind, chunks[i].name, chunks[i].filename>>]

\* One part per field in key order, then one per file in list order.
ExpectedShape(r) ==
    [i \in DOMAIN r.body |-> <<"field", r.body[i].name, "">>]
        \o [i \in DOMAIN r.files.list |->
                <<"file", r.files.list[i].fieldname, r.files.list[i].originalname>>]

IsPrefix(a, b) == Len(a) <= Len(b) /\ a = SubSeq(b, 1, Len(a))

\* C17: the body written for a multipart request whose form has ended is
\* one part per field in key order, then one part per file in list order,
\* then a closing boundary.
C17_PartsThenClosing ==
    (route = "multipart" /\ form.status = "ended")
    => Shape(proxyReq.written) = Append(ExpectedShape(req), <<"close", "", "">>)

\* The part of the ordering that the code keeps: what has been written is a
\* prefix of fields-then-files-then-closing, and the whole of it once the
\* form has ended, except that a form without parts writes nothing at all.
PartsInOrder ==
    LET whole == IF ExpectedShape(req) = <<>> THEN <<>>
                 ELSE Append(ExpectedShape(req), <<"close", "", "">>)
    IN (route = "multipart" /\ form.status # "unpiped")
       => /\ IsPrefix(Shape(proxyReq.written), whole)
          /\ form.status = "ended" => Shape(proxyReq.written) = whole

\* C18: rewriting a field the handler has already rewritten gives the same
\* JSON object as the first rewrite.
C18_RewriteIdempotent ==
    \A i \in DOMAIN form.parts :
        (form.parts[i].kind = "field" /\ IsObjectText(req.body[i].text))
        => JSONparse(RewriteField(form.parts[i].text)) = JSONparse(form.parts[i].text)

C18_Witness ==
    \E i \in DOMAIN form.parts :
        /\ form.parts[i].kind = "field"
        /\ IsObjectText(req.body[i].text)
        /\ KeysOf(JSONparse(req.body[i].text).pairs) = {"schemaName", "extraction"}
        /\ form.parts[i].text # req.body[i].text

=============================================================================
